---- MODULE Spec2Model ----
(***************************************************************************)
(* sdl2::event_map (the last, most complete variant of the event header):  *)
(* the handler registry with its key adaptors and rate limiter, and the    *)
(* event loop with its timers, as a state machine.                         *)
(*                                                                         *)
(* Unsigned 32-bit quantities (timestamps, the repeat counter, timer ids)  *)
(* are modelled as unsigned words of UintBits / IdBits bits, with the same *)
(* wrap-around arithmetic.  The value (unsigned)-1 of an unreserved event  *)
(* tag is written InvalidTag.                                              *)
(***************************************************************************)
EXTENDS Integers, Sequences, FiniteSets, TLC

\* ---------------------------------------------------------------- bounds
MaxHandlers == 3      \* entries registered in handlers_
MaxFeed == 3          \* direct calls of handle_event by the caller
UintBits == 10        \* width of the modelled unsigned int (timestamps, repeat count)
UintMod == 2 ^ UintBits
IdBits == 2           \* width of the modelled unsigned int of next_timer_id_
IdMod == 2 ^ IdBits
MaxQueue == 2         \* events waiting in the SDL queue
MaxTimers == 1        \* successful add_timer calls
MaxTime == 2          \* last instant of the steady clock
FiredCap == 2         \* the invocation count of a callback saturates here
MaxThreads == 2       \* threads that call add_timer side by side
MaxSetTimers == 2     \* timers in timers_ when a running loop is looked at

\* ------------------------------------------------------- program constants
SDL_QUIT == 256
SDL_KEYDOWN == 768
SDL_KEYUP == 769
SDL_MOUSEMOTION == 1024
SDL_USEREVENT == 32768
InvalidTag == -1
SubsequentRepeatMs == 25
FirstRepeatMs == 500
IntMax == 2147483647

\* intervals passed to add_timer, in ms
Intervals == {0, 1}

\* timer ids passed to stop_timer, and values the uninitialised id_ of a timer
\* record may hold: the id add_timer returns first and one it does not
IdValues == {0, 1}

\* the threads that call add_timer side by side
Threads == 1..MaxThreads

\* SDL_Color values (r, g, b, a): the renderer's initial black and the
\* colours the header names
Black == <<0, 0, 0, 255>>
Colours == {Black, <<96, 96, 96, 255>>, <<128, 128, 128, 255>>, <<255, 255, 255, 255>>}

\* key codes offered to the key adaptors and carried by key events
Keycodes == {97, 98}
\* timestamps carried by key-down events: their gaps fall below 25, between
\* 25 and 500 and above 500, and some straddle the wrap of the unsigned word
Timestamps == {0, 10, 40, UintMod - 5}
\* type tags an application registers generic handlers for
AppTypes == {SDL_KEYDOWN, SDL_MOUSEMOTION}

VARIABLES
  handlers_,               \* std::vector<std::pair<event_type,handler>>
  timers_,                 \* std::vector<timer>
  stop_event_type_, add_timer_event_type_, stop_timer_event_type_,
  stop_,                   \* bool stop_
  next_timer_id_,          \* std::atomic<unsigned int>
  queue,                   \* the SDL event queue
  clock,                   \* std::chrono::steady_clock, in ms
  pc,                      \* position of the thread in run_event_loop
  loop_now, timeout,       \* locals of run_event_loop
  loop_ret,                \* what run_event_loop returned
  wake,                    \* how the last SDL_WaitEventTimeout returned
  fed,                     \* number of direct handle_event calls so far
  lastEvent, calls, result,\* last handle_event: its event, the predicates it
                           \* invoked (entry index, returned value), its result
  issued,                  \* each successful add_timer call: the id returned,
                           \* the interval, one_shot, whether the loop was running
  lastAdd,                 \* value returned by the last add_timer call (-1: none)
  fired,                   \* invocations of each timer callback
  lastStop,                \* last stop_timer call: id, returned value, injected
  stopRequested,           \* timers whose id was passed to stop_timer, with valid
                           \* tags and the loop running
  callers,                 \* each thread inside add_timer: its position, its
                           \* locals (id, when, interval, one_shot), what it returned
  draw_colour,             \* the draw colour of the SDL renderer
  style                    \* the sdl::style object: whether it lives, attrs_, c_,
                           \* and the draw colour found by the last set_colour

registryVars == <<handlers_, fed, lastEvent, calls, result>>
tagVars == <<stop_event_type_, add_timer_event_type_, stop_timer_event_type_>>
loopVars == <<timers_, stop_, next_timer_id_, queue, clock, pc, loop_now,
              timeout, loop_ret, wake, issued, lastAdd, fired, lastStop,
              stopRequested>>
styleVars == <<draw_colour, style>>
vars == <<registryVars, tagVars, loopVars, callers, styleVars>>

\* ------------------------------------------------------------------ events
\* SDL_Event: the fields of the union the event_map reads.  data1 holds the
\* timer record of an add-timer event (at most one element).
Event(type, sym, repeat, timestamp, code, data1) ==
  [type |-> type, sym |-> sym, repeat |-> repeat, timestamp |-> timestamp,
   code |-> code, data1 |-> data1]

KeyDownEvent(sym, repeat, timestamp) ==
  Event(SDL_KEYDOWN, sym, repeat, timestamp, 0, <<>>)
KeyUpEvent(sym) == Event(SDL_KEYUP, sym, 0, 0, 0, <<>>)
MotionEvent == Event(SDL_MOUSEMOTION, 0, 0, 0, 0, <<>>)

\* events a caller feeds to handle_event
InputEvents ==
  {KeyDownEvent(k, r, t) : k \in Keycodes, r \in {0, 1}, t \in Timestamps}
    \cup {KeyUpEvent(k) : k \in Keycodes} \cup {MotionEvent}

NoEvent == Event(0, 0, 0, 0, 0, <<>>)

\* -------------------------------------------------------- handler entries
\* One element of handlers_: the type tag (first) and the callable (second).
\* kind tells which callable it is; ret is what a generic predicate returns;
\* count is the counter the bound action of a key adaptor increments.
\* keycode_ is the bound argument: the key code of a key adaptor, the timer id
\* of a handler that stops a timer.
Entry(first, kind, keycode, ret) ==
  [first |-> first, kind |-> kind, keycode_ |-> keycode, ret |-> ret,
   rate_limiter_ |-> [last_key_timestamp_ |-> 0, key_repeat_count_ |-> 0],
   count |-> 0]

\* rate_limiter::rate_limited: the new limiter state and the returned value
RateLimitedStaleRead(rl, e) ==
  LET cnt == IF e.repeat = 0 THEN 0 ELSE (rl.key_repeat_count_ + 1) % UintMod
      last_key_timestamp == e.timestamp
  IN  [rl |-> [last_key_timestamp_ |-> e.timestamp, key_repeat_count_ |-> cnt],
       limited |-> (e.repeat # 0
                    /\ ((e.timestamp - last_key_timestamp) % UintMod) <
                         (IF cnt > 0 THEN SubsequentRepeatMs ELSE FirstRepeatMs))]

RateLimitedNoReset(rl, e) ==
  LET cnt == (rl.key_repeat_count_ + 1) % UintMod
      last_key_timestamp == rl.last_key_timestamp_
  IN  [rl |-> [last_key_timestamp_ |-> e.timestamp, key_repeat_count_ |-> cnt],
       limited |-> (((e.timestamp - last_key_timestamp) % UintMod) <
                         (IF cnt > 0 THEN SubsequentRepeatMs ELSE FirstRepeatMs))]

RateLimited(rl, e) ==
  LET cnt == IF e.repeat = 0 THEN 0 ELSE (rl.key_repeat_count_ + 1) % UintMod
      last_key_timestamp == rl.last_key_timestamp_
  IN  [rl |-> [last_key_timestamp_ |-> e.timestamp, key_repeat_count_ |-> cnt],
       limited |-> (e.repeat # 0
                    /\ ((e.timestamp - last_key_timestamp) % UintMod) <
                         (IF cnt > 0 THEN SubsequentRepeatMs ELSE FirstRepeatMs))]

\* key_down_adaptor::operator(): the entry afterwards and the returned value
KeyDownAdaptorDeclinesLimited(h, e) ==
  IF e.sym = h.keycode_
  THEN LET r == RateLimited(h.rate_limiter_, e)
       IN  [h |-> [h EXCEPT !.rate_limiter_ = r.rl,
                            !.count = IF r.limited THEN @ ELSE @ + 1],
            ret |-> ~r.limited]
  ELSE [h |-> h, ret |-> FALSE]

KeyDownAdaptor(h, e) ==
  IF e.sym = h.keycode_
  THEN LET r == RateLimited(h.rate_limiter_, e)
       IN  [h |-> [h EXCEPT !.rate_limiter_ = r.rl,
                            !.count = IF r.limited THEN @ ELSE @ + 1],
            ret |-> TRUE]
  ELSE [h |-> h, ret |-> FALSE]

\* key_up_adaptor::operator()
KeyUpAdaptorAnyKey(h, e) ==
  [h |-> [h EXCEPT !.count = @ + 1], ret |-> TRUE]

KeyUpAdaptor(h, e) ==
  IF e.sym = h.keycode_
  THEN [h |-> [h EXCEPT !.count = @ + 1], ret |-> TRUE]
  ELSE [h |-> h, ret |-> FALSE]

\* candidate.second(e): the call through std::function
Invoke(h, e) ==
  CASE h.kind = "key_down" -> KeyDownAdaptor(h, e)
    [] h.kind = "key_up" -> KeyUpAdaptor(h, e)
    [] OTHER -> [h |-> h, ret |-> h.ret]

\* std::find_if over handlers_ from entry i with the lambda of handle_event:
\* the entries afterwards, the predicates invoked, and whether one was found
RECURSIVE FindIfFirstTypeMatch(_, _, _, _)
FindIfFirstTypeMatch(hs, e, i, log) ==
  IF i > Len(hs)
  THEN [handlers |-> hs, calls |-> log, found |-> FALSE]
  ELSE IF e.type # hs[i].first
       THEN FindIfFirstTypeMatch(hs, e, i + 1, log)
       ELSE LET r == Invoke(hs[i], e)
            IN  [handlers |-> [hs EXCEPT ![i] = r.h],
                 calls |-> Append(log, [idx |-> i, ret |-> r.ret]),
                 found |-> r.ret]

RECURSIVE FindIfAll(_, _, _, _)
FindIfAll(hs, e, i, log) ==
  IF i > Len(hs)
  THEN [handlers |-> hs, calls |-> log,
        found |-> \E c \in 1..Len(log) : log[c].ret]
  ELSE IF e.type # hs[i].first
       THEN FindIfAll(hs, e, i + 1, log)
       ELSE LET r == Invoke(hs[i], e)
            IN  FindIfAll([hs EXCEPT ![i] = r.h], e, i + 1,
                          Append(log, [idx |-> i, ret |-> r.ret]))

RECURSIVE FindIf(_, _, _, _)
FindIf(hs, e, i, log) ==
  IF i > Len(hs)
  THEN [handlers |-> hs, calls |-> log, found |-> FALSE]
  ELSE IF e.type # hs[i].first
       THEN FindIf(hs, e, i + 1, log)
       ELSE LET r == Invoke(hs[i], e)
                hs2 == [hs EXCEPT ![i] = r.h]
                log2 == Append(log, [idx |-> i, ret |-> r.ret])
            IN  IF r.ret
                THEN [handlers |-> hs2, calls |-> log2, found |-> TRUE]
                ELSE FindIf(hs2, e, i + 1, log2)

HandleEventAnyMatch(hs, e) ==
  LET r == FindIf(hs, e, 1, <<>>) IN [r EXCEPT !.found = (r.calls # <<>>)]

\* event_map::handle_event
HandleEvent(hs, e) == FindIf(hs, e, 1, <<>>)

\* ------------------------------------------------------------ construction
\* event_map::event_map: SDL_RegisterEvents(3) answers the first free user
\* event tag, or (Uint32)-1 when none is left.  stop_ has no initialiser and
\* is assigned by run_event_loop before it is first read.
Init ==
  /\ handlers_ = <<>>
  /\ timers_ = <<>>
  /\ stop_event_type_ \in {SDL_USEREVENT, InvalidTag}
  /\ add_timer_event_type_ =
       IF stop_event_type_ # InvalidTag THEN stop_event_type_ + 1 ELSE InvalidTag
  /\ stop_timer_event_type_ =
       IF stop_event_type_ # InvalidTag THEN stop_event_type_ + 2 ELSE InvalidTag
  /\ stop_ = FALSE
  /\ next_timer_id_ = 1
  /\ queue = <<>>
  /\ clock = 0
  /\ pc = "idle"
  /\ loop_now = 0
  /\ timeout = 0
  /\ loop_ret = "none"
  /\ wake = "none"
  /\ fed = 0
  /\ lastEvent = NoEvent
  /\ calls = <<>>
  /\ result = FALSE
  /\ issued = <<>>
  /\ lastAdd = -1
  /\ fired = <<>>
  /\ lastStop = [id |-> 0, ret |-> "none", injected |-> FALSE]
  /\ stopRequested = {}
  /\ draw_colour = Black
  /\ style = [phase |-> "none", attrs_ |-> 0, c_ |-> Black, set |-> FALSE,
              before |-> Black]
  /\ callers = [th \in Threads |->
                  [pc |-> "idle", id |-> 0, when |-> 0, interval |-> 0,
                   one_shot |-> FALSE, ret |-> -1]]

\* ------------------------------------------------------------ registration
\* handlers_.push_back(...): registration is complete before the loop runs
PushBack(entry) ==
  /\ pc = "idle"
  /\ Len(handlers_) < MaxHandlers
  /\ handlers_' = Append(handlers_, entry)
  /\ UNCHANGED <<fed, lastEvent, calls, result, tagVars, styleVars, callers, loopVars>>

AddHandler(t, ret) == PushBack(Entry(t, "generic", 0, ret))

AddKeyDownHandler(keycode) == PushBack(Entry(SDL_KEYDOWN, "key_down", keycode, FALSE))

AddKeyUpHandler(keycode) == PushBack(Entry(SDL_KEYUP, "key_up", keycode, FALSE))

\* a direct call of handle_event(e) by the caller (no event loop running)
HandleEventCall(e) ==
  /\ pc = "idle"
  /\ fed < MaxFeed
  /\ LET r == HandleEvent(handlers_, e)
     IN  /\ handlers_' = r.handlers
         /\ calls' = r.calls
         /\ result' = r.found
  /\ lastEvent' = e
  /\ fed' = fed + 1
  /\ UNCHANGED <<tagVars, styleVars, callers, loopVars>>

Register ==
  \/ \E t \in AppTypes, ret \in BOOLEAN : AddHandler(t, ret)
  \/ \E k \in Keycodes : AddKeyDownHandler(k)
  \/ \E k \in Keycodes : AddKeyUpHandler(k)

Feed == \E e \in InputEvents : HandleEventCall(e)

\* the registry used without an event loop
NextDispatch == Register \/ Feed
SpecDispatch == Init /\ [][NextDispatch]_vars

\* --------------------------------------------------------------- the loop
\* struct timer, as add_timer constructs it.  The constructor has no
\* initialiser for id_: the member holds whatever the allocation held.
\* handler_ is the bound callback, named by the number of the add_timer call.
Timer(garbage, when, interval, one_shot, handler) ==
  [id_ |-> garbage, when_ |-> when, interval_ |-> interval,
   one_shot_ |-> one_shot, handler_ |-> handler]

TagsValid == stop_event_type_ # InvalidTag

Running == pc \in {"top", "wait", "render"}

\* SDL_PushEvent
Push(e) ==
  /\ Len(queue) < MaxQueue
  /\ queue' = Append(queue, e)

\* t.handler_(): one more invocation of the callback
CallHandler(f, t) ==
  [f EXCEPT ![t.handler_] = IF @ < FiredCap THEN @ + 1 ELSE @]

MinWhenFirst(ts) == ts[1].when_

\* the smallest when_ of a non-empty timers_ (std::min_element)
RECURSIVE MinWhen(_)
MinWhen(ts) ==
  IF Len(ts) = 1
  THEN ts[1].when_
  ELSE LET m == MinWhen(Tail(ts))
       IN  IF m < ts[1].when_ THEN m ELSE ts[1].when_

\* run_event_loop: the timeout handed to SDL_WaitEventTimeout
ComputeTimeout(ts, now) ==
  IF Len(ts) > 0
  THEN LET next_timer == MinWhen(ts)
       IN  IF next_timer > now THEN next_timer - now ELSE 0
  ELSE IntMax

\* handle_timeout: erase(remove_if(...)) with the firing lambda, at time now
RECURSIVE RemoveIfDueRearmsOneShot(_, _, _)
RemoveIfDueRearmsOneShot(ts, now, f) ==
  IF ts = <<>>
  THEN [timers |-> <<>>, fired |-> f]
  ELSE LET t == Head(ts)
       IN  IF now >= t.when_
           THEN LET rest == RemoveIfDueRearmsOneShot(Tail(ts), now, CallHandler(f, t))
                IN  [rest EXCEPT
                       !.timers = <<[t EXCEPT !.when_ = now + t.interval_]>> \o @]
           ELSE LET rest == RemoveIfDueRearmsOneShot(Tail(ts), now, f)
                IN  [rest EXCEPT !.timers = <<t>> \o @]

RECURSIVE RemoveIfDueAccumulates(_, _, _)
RemoveIfDueAccumulates(ts, now, f) ==
  IF ts = <<>>
  THEN [timers |-> <<>>, fired |-> f]
  ELSE LET t == Head(ts)
       IN  IF now >= t.when_
           THEN LET rest == RemoveIfDueAccumulates(Tail(ts), now, CallHandler(f, t))
                IN  IF t.one_shot_
                    THEN rest
                    ELSE [rest EXCEPT
                            !.timers = <<[t EXCEPT !.when_ = @ + t.interval_]>> \o @]
           ELSE LET rest == RemoveIfDueAccumulates(Tail(ts), now, f)
                IN  [rest EXCEPT !.timers = <<t>> \o @]

RemoveIfDueFirstOnly(ts, now, f) ==
  IF ts = <<>>
  THEN [timers |-> <<>>, fired |-> f]
  ELSE LET t == Head(ts)
       IN  IF now >= t.when_
           THEN [timers |-> (IF t.one_shot_
                             THEN <<>>
                             ELSE <<[t EXCEPT !.when_ = now + t.interval_]>>)
                            \o Tail(ts),
                 fired |-> CallHandler(f, t)]
           ELSE [timers |-> ts, fired |-> f]

RECURSIVE RemoveIfDue(_, _, _)
RemoveIfDue(ts, now, f) ==
  IF ts = <<>>
  THEN [timers |-> <<>>, fired |-> f]
  ELSE LET t == Head(ts)
       IN  IF now >= t.when_
           THEN LET rest == RemoveIfDue(Tail(ts), now, CallHandler(f, t))
                IN  IF t.one_shot_
                    THEN rest
                    ELSE [rest EXCEPT
                            !.timers = <<[t EXCEPT !.when_ = now + t.interval_]>> \o @]
           ELSE LET rest == RemoveIfDue(Tail(ts), now, f)
                IN  [rest EXCEPT !.timers = <<t>> \o @]

HandleTimeout(ts, now, f) == RemoveIfDue(ts, now, f)

\* timers_.erase(remove_if(... t.id_ == id ...))
EraseId(ts, id) == SelectSeq(ts, LAMBDA t : t.id_ # id)

AddTimerDirect(interval, one_shot) ==
  /\ Len(issued) < MaxTimers
  /\ IF add_timer_event_type_ = InvalidTag
     THEN /\ lastAdd' = 0
          /\ UNCHANGED <<timers_, next_timer_id_, issued, fired>>
     ELSE \E garbage \in IdValues :
            LET when == clock + interval
                id == next_timer_id_
                t == Timer(garbage, when, interval, one_shot, Len(issued) + 1)
            IN  /\ next_timer_id_' = (next_timer_id_ + 1) % IdMod
                /\ timers_' = Append(timers_, t)
                /\ issued' = Append(issued, [id |-> id, interval |-> interval,
                                             one_shot |-> one_shot,
                                             running |-> Running])
                /\ fired' = Append(fired, 0)
                /\ lastAdd' = id
  /\ UNCHANGED <<registryVars, tagVars, styleVars, callers, queue, stop_, clock, pc, loop_now,
                 timeout, loop_ret, wake, lastStop, stopRequested>>

\* event_map::add_timer, from any thread
AddTimer(interval, one_shot) ==
  /\ Len(issued) < MaxTimers
  /\ IF add_timer_event_type_ = InvalidTag
     THEN /\ lastAdd' = 0
          /\ UNCHANGED <<queue, next_timer_id_, issued, fired>>
     ELSE \E garbage \in IdValues :
            LET when == clock + interval
                id == next_timer_id_
                t == Timer(garbage, when, interval, one_shot, Len(issued) + 1)
            IN  /\ next_timer_id_' = (next_timer_id_ + 1) % IdMod
                /\ Push(Event(add_timer_event_type_, 0, 0, 0, 0, <<t>>))
                /\ issued' = Append(issued, [id |-> id, interval |-> interval,
                                             one_shot |-> one_shot,
                                             running |-> Running])
                /\ fired' = Append(fired, 0)
                /\ lastAdd' = id
  /\ UNCHANGED <<registryVars, tagVars, styleVars, callers, timers_, stop_, clock, pc, loop_now,
                 timeout, loop_ret, wake, lastStop, stopRequested>>

\* event_map::stop_timer, from any thread
StopTimer(id) ==
  /\ IF stop_timer_event_type_ # InvalidTag
     THEN /\ lastStop' = [id |-> id, ret |-> "false", injected |-> FALSE]
          /\ UNCHANGED queue
     ELSE /\ Push(Event(stop_timer_event_type_, 0, 0, 0, id, <<>>))
          /\ lastStop' = [id |-> id, ret |-> "true", injected |-> TRUE]
  /\ stopRequested' =
       IF TagsValid /\ Running
       THEN stopRequested \cup {k \in 1..Len(issued) : issued[k].id = id}
       ELSE stopRequested
  /\ UNCHANGED <<registryVars, tagVars, styleVars, callers, timers_, stop_, next_timer_id_, clock, pc,
                 loop_now, timeout, loop_ret, wake, issued, lastAdd, fired>>

\* event_map::stop_event_loop, from any thread
StopEventLoop ==
  /\ IF stop_event_type_ # InvalidTag
     THEN Push(Event(stop_event_type_, 0, 0, 0, 0, <<>>))
     ELSE UNCHANGED queue
  /\ UNCHANGED <<registryVars, tagVars, styleVars, callers, timers_, stop_, next_timer_id_, clock, pc,
                 loop_now, timeout, loop_ret, wake, issued, lastAdd, fired, lastStop,
              stopRequested>>

\* the platform delivers an input event or SDL_QUIT
PushInput ==
  /\ \E e \in {MotionEvent, Event(SDL_QUIT, 0, 0, 0, 0, <<>>)} : Push(e)
  /\ UNCHANGED <<registryVars, tagVars, styleVars, callers, timers_, stop_, next_timer_id_, clock, pc,
                 loop_now, timeout, loop_ret, wake, issued, lastAdd, fired, lastStop,
              stopRequested>>

\* the steady clock advances
Tick ==
  /\ clock < MaxTime
  /\ clock' = clock + 1
  /\ UNCHANGED <<registryVars, tagVars, styleVars, callers, timers_, stop_, next_timer_id_, queue, pc,
                 loop_now, timeout, loop_ret, wake, issued, lastAdd, fired, lastStop,
              stopRequested>>

\* run_event_loop is entered: no start without event types, else stop_ = false
RunEventLoopUnguarded ==
  /\ pc = "idle"
  /\ pc' = "top"
  /\ stop_' = FALSE
  /\ UNCHANGED <<registryVars, tagVars, styleVars, callers, timers_, next_timer_id_, queue, clock, loop_ret,
                 loop_now, timeout, wake, issued, lastAdd, fired, lastStop, stopRequested>>

RunEventLoop ==
  /\ pc = "idle"
  /\ IF stop_event_type_ = InvalidTag
     THEN /\ pc' = "returned"
          /\ loop_ret' = "false"
          /\ UNCHANGED stop_
     ELSE /\ pc' = "top"
          /\ stop_' = FALSE
          /\ UNCHANGED loop_ret
  /\ UNCHANGED <<registryVars, tagVars, styleVars, callers, timers_, next_timer_id_, queue, clock,
                 loop_now, timeout, wake, issued, lastAdd, fired, lastStop, stopRequested>>

\* while( !stop_ ): leave with true, or read the clock and compute the timeout
LoopTopIgnoresStop ==
  /\ pc = "top"
  /\ pc' = "wait"
  /\ loop_now' = clock
  /\ timeout' = ComputeTimeout(timers_, clock)
  /\ UNCHANGED <<registryVars, tagVars, styleVars, callers, timers_, stop_, next_timer_id_, queue, clock,
                 loop_ret, wake, issued, lastAdd, fired, lastStop, stopRequested>>

LoopTop ==
  /\ pc = "top"
  /\ IF stop_
     THEN /\ pc' = "returned"
          /\ loop_ret' = "true"
          /\ UNCHANGED <<loop_now, timeout>>
     ELSE /\ pc' = "wait"
          /\ loop_now' = clock
          /\ timeout' = ComputeTimeout(timers_, clock)
          /\ UNCHANGED loop_ret
  /\ UNCHANGED <<registryVars, tagVars, styleVars, callers, timers_, stop_, next_timer_id_, queue, clock,
                 wake, issued, lastAdd, fired, lastStop, stopRequested>>

\* run_event_loop: the event ends the loop
IsStopNever(e) == FALSE

IsStopOwnTagOnly(e) == e.type = stop_event_type_

IsStopQuitOnly(e) == e.type = SDL_QUIT

IsStop(e) == e.type = SDL_QUIT \/ e.type = stop_event_type_

\* event_map::stop_timer called by a handler the loop has invoked, that is on
\* the loop thread, with q the queue as the wait left it
HandlerStopTimer(id, q) ==
  /\ IF stop_timer_event_type_ # InvalidTag
     THEN /\ lastStop' = [id |-> id, ret |-> "false", injected |-> FALSE]
          /\ queue' = q
     ELSE /\ queue' = Append(q, Event(stop_timer_event_type_, 0, 0, 0, id, <<>>))
          /\ lastStop' = [id |-> id, ret |-> "true", injected |-> TRUE]
  /\ stopRequested' = stopRequested \cup {k \in 1..Len(issued) : issued[k].id = id}

\* the entry whose predicate consumed the event, in a result r of handle_event
Consumer(r) == r.handlers[r.calls[Len(r.calls)].idx]

\* SDL_WaitEventTimeout returns 1: the event is classified and handled.  A
\* handler that stops a timer makes its call of stop_timer before it returns.
WaitEvent ==
  /\ pc = "wait"
  /\ queue # <<>>
  /\ LET e == Head(queue)
     IN  IF IsStop(e)
         THEN /\ stop_' = TRUE
              /\ queue' = Tail(queue)
              /\ UNCHANGED <<timers_, registryVars, lastStop, stopRequested>>
         ELSE IF e.type = add_timer_event_type_
         THEN /\ timers_' = Append(timers_, e.data1[1])
              /\ queue' = Tail(queue)
              /\ UNCHANGED <<stop_, registryVars, lastStop, stopRequested>>
         ELSE IF e.type = stop_timer_event_type_
         THEN /\ timers_' = EraseId(timers_, e.code)
              /\ queue' = Tail(queue)
              /\ UNCHANGED <<stop_, registryVars, lastStop, stopRequested>>
         ELSE LET r == HandleEvent(handlers_, e)
              IN  /\ handlers_' = r.handlers
                  /\ calls' = r.calls
                  /\ result' = r.found
                  /\ lastEvent' = e
                  /\ IF r.found /\ Consumer(r).kind = "stop_timer"
                     THEN HandlerStopTimer(Consumer(r).keycode_, Tail(queue))
                     ELSE /\ queue' = Tail(queue)
                          /\ UNCHANGED <<lastStop, stopRequested>>
                  /\ UNCHANGED <<stop_, timers_, fed>>
  /\ wake' = "event"
  /\ pc' = "render"
  /\ UNCHANGED <<tagVars, styleVars, callers, next_timer_id_, clock, loop_now, timeout, loop_ret,
                 issued, lastAdd, fired>>

\* SDL_WaitEventTimeout returns 0 after the timeout with no error set:
\* handle_timeout reads the clock and fires what is due
WaitTimeout ==
  /\ pc = "wait"
  /\ queue = <<>>
  /\ timeout # IntMax
  /\ clock >= loop_now + timeout
  /\ LET r == HandleTimeout(timers_, clock, fired)
     IN  /\ timers_' = r.timers
         /\ fired' = r.fired
  /\ wake' = "timeout"
  /\ pc' = "render"
  /\ UNCHANGED <<registryVars, tagVars, styleVars, callers, stop_, next_timer_id_, queue, clock,
                 loop_now, timeout, loop_ret, issued, lastAdd, lastStop, stopRequested>>

\* SDL_WaitEventTimeout returns 0 with an error set: nothing is handled
WaitErrorSkipsRender ==
  /\ pc = "wait"
  /\ wake' = "error"
  /\ pc' = "top"
  /\ UNCHANGED <<registryVars, tagVars, styleVars, callers, timers_, stop_, next_timer_id_, queue, clock,
                 loop_now, timeout, loop_ret, issued, lastAdd, fired, lastStop, stopRequested>>

WaitErrorFires ==
  /\ pc = "wait"
  /\ LET r == HandleTimeout(timers_, clock, fired)
     IN  /\ timers_' = r.timers
         /\ fired' = r.fired
  /\ wake' = "error"
  /\ pc' = "render"
  /\ UNCHANGED <<registryVars, tagVars, styleVars, callers, stop_, next_timer_id_, queue, clock,
                 loop_now, timeout, loop_ret, issued, lastAdd, lastStop, stopRequested>>

WaitError ==
  /\ pc = "wait"
  /\ wake' = "error"
  /\ pc' = "render"
  /\ UNCHANGED <<registryVars, tagVars, styleVars, callers, timers_, stop_, next_timer_id_, queue, clock,
                 loop_now, timeout, loop_ret, issued, lastAdd, fired, lastStop, stopRequested>>

\* render_fun(args...), the end of the iteration: its locals go out of scope
Render ==
  /\ pc = "render"
  /\ pc' = "top"
  /\ loop_now' = 0
  /\ timeout' = 0
  /\ wake' = "none"
  /\ UNCHANGED <<registryVars, tagVars, styleVars, callers, timers_, stop_, next_timer_id_, queue, clock,
                 loop_ret, issued, lastAdd, fired, lastStop, stopRequested>>

\* a generic handler for input events, registered before the loop is run
RegisterForLoop ==
  /\ handlers_ = <<>>
  /\ AddHandler(SDL_MOUSEMOTION, TRUE)

NextLoop ==
  \/ RegisterForLoop
  \/ RunEventLoop
  \/ LoopTop
  \/ WaitEvent
  \/ WaitTimeout
  \/ WaitError
  \/ Render
  \/ Tick
  \/ \E interval \in Intervals, one_shot \in BOOLEAN : AddTimer(interval, one_shot)
  \/ \E id \in IdValues : StopTimer(id)
  \/ StopEventLoop
  \/ PushInput

\* the event_map with its loop and the threads that call it
SpecLoop == Init /\ [][NextLoop]_vars

\* The loop thread is scheduled and the clock advances.  A wait that can
\* deliver an event, or can time out, does so in the end: it does not fail
\* for ever.  Whether events keep arriving is left open.
FairLoop ==
  /\ SpecLoop
  /\ WF_vars(LoopTop)
  /\ WF_vars(Render)
  /\ SF_vars(WaitEvent)
  /\ SF_vars(WaitTimeout)
  /\ WF_vars(Tick)

\* a handler for input events that calls stop_timer(id) and consumes the
\* event, registered before the loop is run
RegisterStopper(id) ==
  /\ handlers_ = <<>>
  /\ PushBack(Entry(SDL_MOUSEMOTION, "stop_timer", id, TRUE))

\* the event_map and its loop when timers are stopped by a handler only
NextHandlerStop ==
  \/ \E id \in IdValues : RegisterStopper(id)
  \/ RunEventLoop
  \/ LoopTop
  \/ WaitEvent
  \/ WaitTimeout
  \/ WaitError
  \/ Render
  \/ Tick
  \/ \E interval \in Intervals, one_shot \in BOOLEAN : AddTimer(interval, one_shot)
  \/ PushInput
SpecHandlerStop == Init /\ [][NextHandlerStop]_vars

\* SDL_PushEvent of an event that carries the stop-timer tag and a timer id:
\* the event stop_timer builds behind its guard.  The SDL queue is open to
\* every thread of the process; stop_timer itself pushes none while the tags
\* are reserved.
InjectStopTimer(id) ==
  /\ stop_timer_event_type_ # InvalidTag
  /\ Push(Event(stop_timer_event_type_, 0, 0, 0, id, <<>>))
  /\ UNCHANGED <<registryVars, tagVars, styleVars, callers, timers_, stop_, next_timer_id_, clock, pc,
                 loop_now, timeout, loop_ret, wake, issued, lastAdd, fired, lastStop,
                 stopRequested>>

\* the event_map and its loop with stop-timer events arriving in the queue
NextInject ==
  \/ NextLoop
  \/ \E id \in IdValues : InjectStopTimer(id)
SpecInject == Init /\ [][NextInject]_vars

\* next_timer_id_++ on the std::atomic: the value read and the value left,
\* in one indivisible step
PostIncrementLost(v) == [value |-> v, next |-> v]

PostIncrement(v) == [value |-> v, next |-> (v + 1) % IdMod]

\* add_timer on thread th, up to the increment of next_timer_id_: the tag
\* test, the clock read and the allocation of the id
AddTimerAllocate(th, interval, one_shot) ==
  /\ callers[th].pc = "idle"
  /\ IF add_timer_event_type_ = InvalidTag
     THEN /\ callers' = [callers EXCEPT ![th].pc = "done", ![th].ret = 0]
          /\ UNCHANGED next_timer_id_
     ELSE LET a == PostIncrement(next_timer_id_)
          IN  /\ next_timer_id_' = a.next
              /\ callers' = [callers EXCEPT ![th] =
                               [pc |-> "allocated", id |-> a.value,
                                when |-> clock + interval, interval |-> interval,
                                one_shot |-> one_shot, ret |-> -1]]
  /\ UNCHANGED <<registryVars, tagVars, styleVars, timers_, stop_, queue, clock, pc, loop_now,
                 timeout, loop_ret, wake, issued, lastAdd, fired, lastStop,
                 stopRequested>>

\* add_timer on thread th, from the construction of the timer record to the
\* return of the id; the callback of the record is named by the thread
AddTimerPush(th) ==
  /\ callers[th].pc = "allocated"
  /\ \E garbage \in IdValues :
       LET c == callers[th]
           t == Timer(garbage, c.when, c.interval, c.one_shot, th)
       IN  Push(Event(add_timer_event_type_, 0, 0, 0, 0, <<t>>))
  /\ callers' = [callers EXCEPT ![th].pc = "done", ![th].ret = callers[th].id]
  /\ UNCHANGED <<registryVars, tagVars, styleVars, timers_, stop_, next_timer_id_, clock, pc,
                 loop_now, timeout, loop_ret, wake, issued, lastAdd, fired, lastStop,
                 stopRequested>>

\* several threads call add_timer on one event_map while the clock advances
NextCallers ==
  \/ \E th \in Threads, interval \in Intervals, one_shot \in BOOLEAN :
       AddTimerAllocate(th, interval, one_shot)
  \/ \E th \in Threads : AddTimerPush(th)
  \/ Tick
SpecCallers == Init /\ [][NextCallers]_vars

\* thread th is back in its caller and may call add_timer again
AddTimerReturn(th) ==
  /\ callers[th].pc = "done"
  /\ callers' = [callers EXCEPT ![th] =
                   [pc |-> "idle", id |-> 0, when |-> 0, interval |-> 0,
                    one_shot |-> FALSE, ret |-> -1]]
  /\ UNCHANGED <<registryVars, tagVars, styleVars, timers_, stop_, next_timer_id_, queue, clock, pc,
                 loop_now, timeout, loop_ret, wake, issued, lastAdd, fired, lastStop,
                 stopRequested>>

\* the mode without an event loop: the caller takes the next event from the
\* SDL queue itself and hands it to handle_event
CallerPoll ==
  /\ pc = "idle"
  /\ queue # <<>>
  /\ queue' = Tail(queue)
  /\ LET r == HandleEvent(handlers_, Head(queue))
     IN  /\ handlers_' = r.handlers
         /\ calls' = r.calls
         /\ result' = r.found
  /\ lastEvent' = Head(queue)
  /\ UNCHANGED <<fed, tagVars, styleVars, callers, timers_, stop_, next_timer_id_, clock, pc,
                 loop_now, timeout, loop_ret, wake, issued, lastAdd, fired, lastStop,
                 stopRequested>>

\* threads call add_timer again and again on an event_map whose queue the
\* caller empties
NextRepeatedCalls ==
  \/ \E th \in Threads, interval \in Intervals, one_shot \in BOOLEAN :
       AddTimerAllocate(th, interval, one_shot)
  \/ \E th \in Threads : AddTimerPush(th)
  \/ \E th \in Threads : AddTimerReturn(th)
  \/ CallerPoll
SpecRepeatedCalls == Init /\ [][NextRepeatedCalls]_vars

\* ------------------------------------- handlers for the tags the loop takes
\* the type tags run_event_loop tests for before it calls handle_event
LoopTags ==
  {SDL_QUIT, stop_event_type_, add_timer_event_type_, stop_timer_event_type_}

\* add_handler for any type tag, those of the loop included: add_handler
\* takes every Uint32
RegisterTagged(t, ret) ==
  /\ Len(handlers_) < 2
  /\ AddHandler(t, ret)

\* the event_map and its loop with handlers registered for any tag and
\* events of every kind in the queue
NextIntercept ==
  \/ \E t \in LoopTags \cup {SDL_MOUSEMOTION}, ret \in BOOLEAN : RegisterTagged(t, ret)
  \/ RunEventLoop
  \/ LoopTop
  \/ WaitEvent
  \/ WaitTimeout
  \/ WaitError
  \/ Render
  \/ AddTimer(0, TRUE)
  \/ \E id \in IdValues : InjectStopTimer(id)
  \/ StopEventLoop
  \/ PushInput
SpecIntercept == Init /\ [][NextIntercept]_vars

\* ------------------------------------------------- a loop with timers set
\* timer records as add_timer builds them for the k-th call, with every
\* due-time the clock can reach
TimerRecords(k) ==
  {Timer(garbage, when, interval, one_shot, k) :
     garbage \in IdValues, when \in 0..MaxTime, interval \in Intervals,
     one_shot \in BOOLEAN}

\* the contents timers_ can have once the loop has taken n add-timer events
TimerSets(n) ==
  {ts \in [1..n -> UNION {TimerRecords(k) : k \in 1..n}] :
     \A k \in 1..n : ts[k].handler_ = k}

\* a running loop at the top of an iteration, after n add_timer calls whose
\* events it has taken, none of the timers having fired yet
InitTimers ==
  /\ handlers_ = <<>>
  /\ \E n \in 0..MaxSetTimers :
       /\ timers_ \in TimerSets(n)
       /\ issued = [k \in 1..n |-> [id |-> k, interval |-> timers_[k].interval_,
                                     one_shot |-> timers_[k].one_shot_,
                                     running |-> TRUE]]
       /\ fired = [k \in 1..n |-> 0]
       /\ next_timer_id_ = (n + 1) % IdMod
       /\ lastAdd = IF n = 0 THEN -1 ELSE n
  /\ stop_event_type_ = SDL_USEREVENT
  /\ add_timer_event_type_ = stop_event_type_ + 1
  /\ stop_timer_event_type_ = stop_event_type_ + 2
  /\ stop_ = FALSE
  /\ queue = <<>>
  /\ clock = 0
  /\ pc = "top"
  /\ loop_now = 0
  /\ timeout = 0
  /\ loop_ret = "none"
  /\ wake = "none"
  /\ fed = 0
  /\ lastEvent = NoEvent
  /\ calls = <<>>
  /\ result = FALSE
  /\ lastStop = [id |-> 0, ret |-> "none", injected |-> FALSE]
  /\ stopRequested = {}
  /\ draw_colour = Black
  /\ style = [phase |-> "none", attrs_ |-> 0, c_ |-> Black, set |-> FALSE,
              before |-> Black]
  /\ callers = [th \in Threads |->
                  [pc |-> "idle", id |-> 0, when |-> 0, interval |-> 0,
                   one_shot |-> FALSE, ret |-> -1]]

\* the iterations of that loop while input arrives and the clock advances
NextTimers ==
  \/ LoopTop
  \/ WaitEvent
  \/ WaitTimeout
  \/ WaitError
  \/ Render
  \/ Tick
  \/ PushInput
SpecTimers == InitTimers /\ [][NextTimers]_vars

\* -------------------------------------------------------------- sdl::style
\* x >> n, x | y and x & y on non-negative ints
ShiftRight(x, n) == x \div (2 ^ n)

RECURSIVE BitOr(_, _)
BitOr(x, y) ==
  IF x = 0 THEN y
  ELSE IF y = 0 THEN x
  ELSE (IF x % 2 = 1 \/ y % 2 = 1 THEN 1 ELSE 0) + 2 * BitOr(x \div 2, y \div 2)

RECURSIVE BitAnd(_, _)
BitAnd(x, y) ==
  IF x = 0 \/ y = 0 THEN 0
  ELSE (IF x % 2 = 1 /\ y % 2 = 1 THEN 1 ELSE 0) + 2 * BitAnd(x \div 2, y \div 2)

\* enum Attrs { colour = 1 >> 1 }
colour == ShiftRight(1, 1)

\* SDL_SetRenderDrawColor called by the application while no style lives
SetRenderDrawColor(c) ==
  /\ style.phase # "live"
  /\ draw_colour' = c
  /\ UNCHANGED <<style, registryVars, tagVars, loopVars, callers>>

\* style::style(renderer const&): attrs_(0); c_ has no initialiser
StyleConstruct ==
  /\ style.phase # "live"
  /\ \E garbage \in Colours :
       style' = [phase |-> "live", attrs_ |-> 0, c_ |-> garbage, set |-> FALSE,
                 before |-> draw_colour]
  /\ UNCHANGED <<draw_colour, registryVars, tagVars, loopVars, callers>>

\* style::set_colour(c)
SetColour(c) ==
  /\ style.phase = "live"
  /\ style' = [style EXCEPT !.attrs_ = BitOr(@, colour),
                            !.c_ = draw_colour,
                            !.set = TRUE,
                            !.before = draw_colour]
  /\ draw_colour' = c
  /\ UNCHANGED <<registryVars, tagVars, loopVars, callers>>

\* style::~style()
StyleDestroy ==
  /\ style.phase = "live"
  /\ draw_colour' = IF BitAnd(style.attrs_, colour) # 0 THEN style.c_ ELSE draw_colour
  /\ style' = [style EXCEPT !.phase = "destroyed"]
  /\ UNCHANGED <<registryVars, tagVars, loopVars, callers>>

\* a renderer and the style objects set on it, one after another
NextStyle ==
  \/ \E c \in Colours : SetRenderDrawColor(c)
  \/ StyleConstruct
  \/ \E c \in Colours : SetColour(c)
  \/ StyleDestroy
SpecStyle == Init /\ [][NextStyle]_vars

\* the scenario of one key-down handler fed a press, a repeat 10 ms later and
\* a repeat 600 ms after the press
ScenarioRegister ==
  /\ handlers_ = <<>>
  /\ \E k \in Keycodes : AddKeyDownHandler(k)

ScenarioPress ==
  /\ Len(handlers_) = 1
  /\ fed = 0
  /\ \E t \in 0..(UintMod - 1) :
       HandleEventCall(KeyDownEvent(handlers_[1].keycode_, 0, t))

ScenarioEarlyRepeat ==
  /\ fed = 1
  /\ HandleEventCall(KeyDownEvent(handlers_[1].keycode_, 1,
                                  (lastEvent.timestamp + 10) % UintMod))

ScenarioLateRepeat ==
  /\ fed = 2
  /\ HandleEventCall(KeyDownEvent(handlers_[1].keycode_, 1,
                                  (lastEvent.timestamp + 590) % UintMod))

NextScenario ==
  ScenarioRegister \/ ScenarioPress \/ ScenarioEarlyRepeat \/ ScenarioLateRepeat
SpecScenario == Init /\ [][NextScenario]_vars

\* ------------------------------------------------------------------ claims
\* A step that is a direct call of handle_event: the entries before the call
\* are handlers_, the event is lastEvent', the predicates invoked are calls'.
IsFeed == fed' = fed + 1

\* entries of hs that carry the type tag of e
Matching(hs, e) == {i \in 1..Len(hs) : hs[i].first = e.type}

\* what the predicate of entry h is to answer for e
Consumes(h, e) == IF h.kind = "generic" THEN h.ret ELSE e.sym = h.keycode_

SetMin(S) == CHOOSE x \in S : \A y \in S : x <= y

\* elapsed time between the event and the one the limiter of h saw last
Elapsed(h, e) == (e.timestamp - h.rate_limiter_.last_key_timestamp_) % UintMod

\* C1: handle_event invokes the predicates of the entries with the event's type
\* tag in registration order, none of another tag, goes on past an entry that
\* declines, and invokes none after the first entry that consumes.
C1_Step ==
  IsFeed =>
    LET e == lastEvent'
        hs == handlers_
        log == calls'
        consuming == {i \in Matching(hs, e) : Consumes(hs[i], e)}
        last == IF consuming = {} THEN Len(hs) ELSE SetMin(consuming)
    IN  /\ \A j \in 1..(Len(log) - 1) : log[j].idx < log[j + 1].idx
        /\ {log[j].idx : j \in 1..Len(log)} = {i \in Matching(hs, e) : i <= last}
        /\ \A j \in 1..Len(log) : log[j].ret = Consumes(hs[log[j].idx], e)
C1_InOrderFirstConsumer == [][C1_Step]_vars

\* a call that skipped an entry of another tag, went past a declining entry
\* of the event's tag and stopped at a consuming one
C1_Witness ==
  /\ fed > 0
  /\ Len(calls) = 2
  /\ ~calls[1].ret
  /\ calls[2].ret
  /\ calls[1].idx = 2
  /\ calls[2].idx = 3
  /\ handlers_[1].first # lastEvent.type

\* C2: handle_event returns true exactly when some entry with the event's type
\* tag consumes the event; false when none has the tag or all of them decline.
C2_Step ==
  IsFeed =>
    (result' <=> \E i \in Matching(handlers_, lastEvent') :
                   Consumes(handlers_[i], lastEvent'))
C2_ReturnsConsumed == [][C2_Step]_vars

\* a call in which two entries of the event's tag both declined
C2_Witness ==
  /\ fed > 0
  /\ ~result
  /\ Len(calls) = 2
  /\ ~calls[1].ret
  /\ ~calls[2].ret

\* C5: a key-down event with the repeat flag clear, offered to a key-down handler
\* of its key code, invokes the action, zeroes the repeat counter, records the
\* timestamp and is consumed, whatever the limiter held before.
C5_Step ==
  (IsFeed /\ lastEvent'.type = SDL_KEYDOWN /\ lastEvent'.repeat = 0) =>
    \A j \in 1..Len(calls') :
      LET i == calls'[j].idx
      IN  (handlers_[i].kind = "key_down" /\ handlers_[i].keycode_ = lastEvent'.sym) =>
            /\ handlers_'[i].count = handlers_[i].count + 1
            /\ handlers_'[i].rate_limiter_.key_repeat_count_ = 0
            /\ handlers_'[i].rate_limiter_.last_key_timestamp_ = lastEvent'.timestamp
            /\ calls'[j].ret
            /\ result'
C5_FreshPressAlwaysActs == [][C5_Step]_vars

\* a fresh press handled less than 25 ms after a repeat that had been acted on
C5_Witness ==
  /\ fed = 3
  /\ lastEvent.type = SDL_KEYDOWN
  /\ lastEvent.repeat = 0
  /\ lastEvent.timestamp = 10
  /\ Len(calls) = 1
  /\ handlers_[calls[1].idx].kind = "key_down"
  /\ handlers_[calls[1].idx].count = 3
  /\ handlers_[calls[1].idx].rate_limiter_.key_repeat_count_ = 0

\* C6: a repeat key-down event less than 25 ms after the event the same handler
\* saw last does not invoke the action, yet is consumed: handle_event returns
\* true and tries no later entry.
C6_Step ==
  (IsFeed /\ lastEvent'.type = SDL_KEYDOWN /\ lastEvent'.repeat # 0) =>
    \A j \in 1..Len(calls') :
      LET i == calls'[j].idx
      IN  (/\ handlers_[i].kind = "key_down"
           /\ handlers_[i].keycode_ = lastEvent'.sym
           /\ Elapsed(handlers_[i], lastEvent') < SubsequentRepeatMs) =>
            /\ handlers_'[i].count = handlers_[i].count
            /\ calls'[j].ret
            /\ result'
            /\ j = Len(calls')
C6_FastRepeatSuppressedConsumed == [][C6_Step]_vars

\* a suppressed repeat: consumed by a key-down handler whose action ran once,
\* for the press, with a later entry of the same tag left untried
C6_Witness ==
  /\ fed = 2
  /\ lastEvent.type = SDL_KEYDOWN
  /\ lastEvent.repeat = 1
  /\ result
  /\ Len(calls) = 1
  /\ handlers_[calls[1].idx].kind = "key_down"
  /\ handlers_[calls[1].idx].count = 1
  /\ handlers_[calls[1].idx].rate_limiter_.key_repeat_count_ = 1
  /\ Len(handlers_) > calls[1].idx
  /\ handlers_[Len(handlers_)].first = SDL_KEYDOWN

\* C7: the first repeat after a fresh press is suppressed exactly when it comes
\* less than 500 ms after the press, every later consecutive repeat exactly
\* when it comes less than 25 ms after the previous event.
C7_Step ==
  (IsFeed /\ lastEvent'.type = SDL_KEYDOWN /\ lastEvent'.repeat # 0) =>
    \A j \in 1..Len(calls') :
      LET i == calls'[j].idx
          first == handlers_[i].rate_limiter_.key_repeat_count_ = 0
          suppressed == handlers_'[i].count = handlers_[i].count
      IN  (/\ handlers_[i].kind = "key_down"
           /\ handlers_[i].keycode_ = lastEvent'.sym
           /\ handlers_[i].count > 0) =>
            (suppressed <=>
               Elapsed(handlers_[i], lastEvent') <
                 (IF first THEN FirstRepeatMs ELSE SubsequentRepeatMs))
C7_FirstRepeat500 == [][C7_Step]_vars

\* C8: one key-down handler for K fed a press at t, a repeat at t + 10 and a
\* repeat at t + 600 has run its action twice: for the press and for the late
\* repeat, not for the repeat at t + 10.
C8_ScenarioCountsTwo ==
  /\ fed = 1 => handlers_[1].count = 1
  /\ fed = 2 => handlers_[1].count = 1
  /\ fed = 3 => handlers_[1].count = 2

\* the scenario run to its end, with a press time at which t + 600 has wrapped
C8_Witness ==
  /\ fed = 3
  /\ Len(handlers_) = 1
  /\ handlers_[1].kind = "key_down"
  /\ handlers_[1].count = 2
  /\ handlers_[1].rate_limiter_.key_repeat_count_ = 2
  /\ lastEvent.timestamp = 100

\* C9: a key-up handler for K invokes its action and consumes every key-up event
\* of key K it is offered, with no rate limiting, and declines a key-up event of
\* another key without invoking the action.
C9_Step ==
  IsFeed =>
    \A j \in 1..Len(calls') :
      LET i == calls'[j].idx
      IN  handlers_[i].kind = "key_up" =>
            IF lastEvent'.sym = handlers_[i].keycode_
            THEN /\ handlers_'[i].count = handlers_[i].count + 1
                 /\ calls'[j].ret
                 /\ result'
                 /\ j = Len(calls')
            ELSE /\ handlers_'[i].count = handlers_[i].count
                 /\ ~calls'[j].ret
C9_KeyUpUnlimited == [][C9_Step]_vars

\* three key-up events of the handler's key in a row, each acted on, and a
\* key-up handler of another key that declined the last one
C9_Witness ==
  /\ fed = 3
  /\ lastEvent.type = SDL_KEYUP
  /\ Len(calls) = 2
  /\ handlers_[calls[1].idx].kind = "key_up"
  /\ handlers_[calls[1].idx].count = 0
  /\ ~calls[1].ret
  /\ handlers_[calls[2].idx].kind = "key_up"
  /\ handlers_[calls[2].idx].count = 3
  /\ calls[2].ret

\* timer k (the k-th successful add_timer call) waits in the queue / is in timers_
InQueue(k) ==
  \E i \in 1..Len(queue) : queue[i].data1 # <<>> /\ queue[i].data1[1].handler_ = k
InSet(k) == \E i \in 1..Len(timers_) : timers_[i].handler_ = k

\* timer k is gone: neither waiting in the queue nor in timers_
Gone(k) == ~InSet(k) /\ ~InQueue(k)

\* C3: after stop_timer(id) with an id add_timer returned, valid tags and a loop
\* that keeps running, the loop eventually removes the timer from timers_, and
\* the callback is not invoked after the removal.
C3_StopRemovesTimer ==
  /\ ([](pc # "returned")) =>
       \A k \in 1..MaxTimers : [](k \in stopRequested => <>Gone(k))
  /\ [][\A k \in stopRequested : Gone(k) => fired'[k] = fired[k]]_vars

\* C4: stop_timer returns true and injects a stop-timer event when the tags were
\* reserved, and returns false only when they were not.
C4_StopTimerSucceeds ==
  lastStop.ret # "none" =>
    /\ TagsValid => (lastStop.ret = "true" /\ lastStop.injected)
    /\ lastStop.ret = "false" => ~TagsValid

\* timer k was added with a 0 ms interval and one_shot = true while the loop ran
ZeroOneShot(k) ==
  /\ k <= Len(issued)
  /\ issued[k].interval = 0
  /\ issued[k].one_shot
  /\ issued[k].running

\* the callback of timer k has been invoked once
FiredOnce(k) == k <= Len(fired) /\ fired[k] = 1

\* the wait timeout as the deadlines of the timers in ts give it at time now
ExpectedTimeout(ts, now) ==
  IF ts = <<>>
  THEN IntMax
  ELSE LET earliest == SetMin({ts[i].when_ : i \in 1..Len(ts)})
       IN  IF earliest - now > 0 THEN earliest - now ELSE 0

\* a 0 ms one-shot timer never fires twice and, once fired, is in neither the
\* queue nor timers_, so that the timeout is computed from the other timers
C10_Safety ==
  \A k \in 1..Len(issued) :
    ZeroOneShot(k) =>
      /\ fired[k] <= 1
      /\ fired[k] = 1 =>
           /\ ~InSet(k)
           /\ ~InQueue(k)
           /\ pc = "wait" => timeout = ExpectedTimeout(timers_, loop_now)

\* the wait of this iteration returned with no event and no error
GenuineTimeout == pc = "render" /\ wake = "timeout"

\* C10 as stated: after add_timer(0 ms, one_shot) on a running loop that is not
\* stopped, the callback is eventually invoked, exactly once over the run, and
\* the timer is afterwards absent from timers_ and from the timeout.
C10_FiresEventually ==
  /\ []C10_Safety
  /\ ([](pc # "returned")) =>
       \A k \in 1..MaxTimers : [](ZeroOneShot(k) => <>FiredOnce(k))

\* C10 amended: the callback is invoked at most once and the timer is absent
\* afterwards; it is eventually invoked provided the loop keeps making timeout
\* passes, that is waits that end with no event and no error.
C10_FiresOnTimeoutPass ==
  /\ []C10_Safety
  /\ ([]<>GenuineTimeout) =>
       \A k \in 1..MaxTimers : [](ZeroOneShot(k) => <>FiredOnce(k))

\* the one-shot has fired once and the loop waits again, without a deadline
C10_Witness ==
  /\ ZeroOneShot(1)
  /\ fired[1] = 1
  /\ pc = "wait"
  /\ timeout = IntMax
  /\ timers_ = <<>>

\* a step in which the wait returned with no event and no error, so that
\* handle_timeout ran at the time the clock shows
TimeoutPass == pc = "wait" /\ pc' = "render" /\ wake' = "timeout"

\* the timer of timers_' that runs callback h, as a set of at most one record
After(h) == {timers_'[j] : j \in {j \in 1..Len(timers_') : timers_'[j].handler_ = h}}

\* C11: a periodic timer that is due in a timeout pass at time now has its
\* callback invoked once in that pass and is then due at now + interval, not at
\* its old due-time + interval; a timer that is not yet due is left alone.
C11_Step ==
  TimeoutPass =>
    \A i \in 1..Len(timers_) :
      LET t == timers_[i]
          h == t.handler_
      IN  IF clock >= t.when_
          THEN /\ fired'[h] = (IF fired[h] < FiredCap THEN fired[h] + 1 ELSE fired[h])
               /\ ~t.one_shot_ => After(h) = {[t EXCEPT !.when_ = clock + t.interval_]}
          ELSE /\ fired'[h] = fired[h]
               /\ After(h) = {t}
C11_DueFromFiringTime == [][C11_Step]_vars

\* a periodic 1 ms timer has just fired late: the pass ran after the due-time
\* the wait was computed for, and the timer is due one interval after the pass
C11_Witness ==
  /\ pc = "render"
  /\ wake = "timeout"
  /\ clock > loop_now + timeout
  /\ Len(timers_) = 1
  /\ ~timers_[1].one_shot_
  /\ timers_[1].interval_ = 1
  /\ timers_[1].when_ = clock + 1
  /\ fired[timers_[1].handler_] = 1

\* a step in which the loop takes the event at the head of the queue
TakesEvent == pc = "wait" /\ pc' = "render" /\ queue # <<>> /\ queue' = Tail(queue)

\* the id add_timer returned for the timer record t
IssuedId(t) == issued[t.handler_].id

\* C12: when the loop processes a stop-timer event whose id is the id of no
\* timer in timers_ (never returned by add_timer, or the timer is gone), timers_
\* is left exactly as it was.
C12_Step ==
  (/\ TakesEvent
   /\ Head(queue).type = stop_timer_event_type_
   /\ \A i \in 1..Len(timers_) : IssuedId(timers_[i]) # Head(queue).code) =>
    timers_' = timers_
C12_UnknownIdNoOp == [][C12_Step]_vars

\* C13: once a handler invoked through handle_event has called stop_timer(id)
\* on the loop thread and returned, the callback of timer id is not invoked
\* again.
C13_Step == \A k \in stopRequested : fired'[k] = fired[k]
C13_NoFiringAfterHandlerStop == [][C13_Step]_vars

\* stop_timer was called for timer k while the loop ran, and the callback of k
\* has been invoked n times
StoppedAt(k, n) == k \in stopRequested /\ k <= Len(fired) /\ fired[k] = n

\* the callback of timer k has been invoked at most m times
FiredAtMost(k, m) == k <= Len(fired) => fired[k] <= m

\* C14: after stop_timer(id) has returned to a thread other than the loop
\* thread while the loop runs, the callback of timer id is invoked at most
\* once more, whatever the interleaving.
C14_AtMostOneAfterStop ==
  \A k \in 1..MaxTimers : \A n \in 0..(FiredCap - 2) :
    [](StoppedAt(k, n) => [](FiredAtMost(k, n + 1)))

\* nothing is dispatched and no timer callback runs in this step
NothingInvoked ==
  /\ handlers_' = handlers_
  /\ calls' = calls
  /\ lastEvent' = lastEvent
  /\ \A k \in 1..Len(fired) : fired'[k] = fired[k]
  /\ timers_' = timers_

\* a stop-loop event waits in the queue
StopPending == \E i \in 1..Len(queue) : queue[i].type = stop_event_type_

Returned == pc = "returned"

\* C15: when the running loop takes a stop-loop event or SDL_QUIT it sets stop_;
\* from then on it takes no event from the queue, invokes no handler and no
\* timer callback, and run_event_loop returns true.
C15_Step ==
  /\ (TakesEvent /\ Head(queue).type \in {SDL_QUIT, stop_event_type_}) =>
       (stop_' /\ NothingInvoked)
  /\ stop_ => (NothingInvoked /\ Len(queue') >= Len(queue))
C15_StopEndsLoop ==
  /\ [][C15_Step]_vars
  /\ [](stop_ => pc \in {"render", "top", "returned"})
  /\ []((stop_ /\ Returned) => loop_ret = "true")
  /\ (stop_ ~> Returned)

\* the loop has returned true with an input event left in the queue and a due
\* timer that never fired
C15_Witness ==
  /\ Returned
  /\ loop_ret = "true"
  /\ queue # <<>>
  /\ Head(queue).type = SDL_MOUSEMOTION
  /\ Len(timers_) = 1
  /\ timers_[1].when_ <= clock
  /\ fired = <<0>>

\* C16: however many stop-loop events were injected before the loop observes
\* the first, the running loop terminates, and run_event_loop returns once:
\* once the first is observed no later event is taken, and having returned
\* true the loop does nothing further.
C16_Step ==
  /\ stop_ => (stop_' /\ Len(queue') >= Len(queue))
  /\ Returned => (Returned' /\ loop_ret' = loop_ret /\ NothingInvoked)
C16_StopsOnce ==
  /\ []((Running /\ StopPending) => <>Returned)
  /\ [][C16_Step]_vars
  /\ []((Returned /\ TagsValid) => loop_ret = "true")

\* the loop has returned and the second stop-loop event is still in the queue
C16_Witness ==
  /\ Returned
  /\ loop_ret = "true"
  /\ queue # <<>>
  /\ Head(queue).type = stop_event_type_

\* C17: each iteration goes from the wait through its handling to the render
\* callback and from there to the loop test: render runs once per iteration,
\* after the handling, whatever the wait returned, and handles nothing itself.
C17_Step ==
  /\ (pc = "wait" /\ pc' # "wait") => pc' = "render"
  /\ (pc = "render" /\ pc' # "render") => pc' = "top"
  /\ (pc' = "top" /\ pc # "top") => pc \in {"render", "idle"}
  /\ (pc = "top" /\ pc' # "top") => pc' \in {"wait", "returned"}
  /\ pc = "render" => (NothingInvoked /\ Len(queue') >= Len(queue))
C17_RenderOncePerIteration == [][C17_Step]_vars

\* render has run in the iteration that observed the stop event
C17_Witness ==
  /\ pc = "top"
  /\ stop_
  /\ wake = "none"

\* C18 as stated: in the iteration that observes a stop-loop or quit event the
\* loop sets stop_ and runs no remaining step: no dispatch, no timer callback
\* and no render callback.
C18_SkipsRest ==
  [][/\ (TakesEvent /\ Head(queue).type \in {SDL_QUIT, stop_event_type_}) =>
          (stop_' /\ NothingInvoked)
     /\ stop_ => (NothingInvoked /\ ~(pc = "render" /\ pc' = "top"))]_vars

\* C18 amended: in that iteration the loop sets stop_, dispatches nothing and
\* fires no timer; it still invokes the render callback, once, and then leaves
\* at the loop test.
C18_Step ==
  /\ (TakesEvent /\ Head(queue).type \in {SDL_QUIT, stop_event_type_}) =>
       (stop_' /\ pc' = "render" /\ NothingInvoked)
  /\ (stop_ /\ pc = "render" /\ pc' # pc) => (pc' = "top" /\ stop_')
  /\ (stop_ /\ pc = "top" /\ pc' # pc) => (Returned' /\ loop_ret' = "true")
C18_StopThenRenderThenLeave == [][C18_Step]_vars

\* the stop event has been observed and the render callback is about to run
C18_Witness ==
  /\ pc = "render"
  /\ stop_
  /\ wake = "event"

\* the event most recently pushed, after a step that lengthened the queue
Pushed == queue'[Len(queue')]

\* C19: when SDL_RegisterEvents failed at construction, run_event_loop returns
\* false without running an iteration, add_timer returns 0 without creating or
\* injecting a timer, stop_event_loop injects nothing, and these calls leave
\* handlers_ and timers_ as they were.
C19_Inv ==
  ~TagsValid =>
    /\ pc \in {"idle", "returned"}
    /\ Returned => loop_ret = "false"
    /\ wake = "none"
    /\ calls = <<>>
    /\ timers_ = <<>>
    /\ fired = <<>>
    /\ issued = <<>>
    /\ next_timer_id_ = 1
    /\ lastAdd \in {-1, 0}
    /\ \A i \in 1..Len(queue) : queue[i].data1 = <<>>
C19_Step ==
  ~TagsValid =>
    /\ pc' # pc =>
         (pc = "idle" /\ Returned' /\ loop_ret' = "false"
          /\ handlers_' = handlers_ /\ queue' = queue)
    /\ lastAdd' # lastAdd =>
         (lastAdd' = 0 /\ handlers_' = handlers_ /\ queue' = queue)
    /\ queue' # queue =>
         /\ Len(queue') = Len(queue) + 1
         /\ handlers_' = handlers_
         /\ \/ Pushed.type \in {SDL_MOUSEMOTION, SDL_QUIT}
            \/ /\ lastStop'.injected
               /\ Pushed = Event(stop_timer_event_type_, 0, 0, 0, lastStop'.id, <<>>)
C19_NoTagsNothingStarts == []C19_Inv /\ [][C19_Step]_vars

\* without tags: run_event_loop has returned false, add_timer has returned 0,
\* the registered handler is still there and the queue is empty
C19_Witness ==
  /\ ~TagsValid
  /\ Returned
  /\ loop_ret = "false"
  /\ lastAdd = 0
  /\ Len(handlers_) = 1
  /\ queue = <<>>

\* threads whose add_timer call has taken its id / has returned
Allocated == {th \in Threads : callers[th].pc # "idle"}
Done == {th \in Threads : callers[th].pc = "done"}

\* positions in the queue of the add-timer events that carry the callback of th
AddEventsOf(th) ==
  {i \in 1..Len(queue) :
     /\ queue[i].type = add_timer_event_type_
     /\ queue[i].data1 # <<>>
     /\ queue[i].data1[1].handler_ = th}

\* C20: with valid tags and fewer timers created than the id counter has
\* values, add_timer calls interleaved on several threads take pairwise
\* distinct non-zero ids and return them, and each call injects exactly one
\* add-timer event: none before its push, one once it has returned.
C20_DistinctIds ==
  (TagsValid /\ Cardinality(Allocated) < IdMod) =>
    /\ \A th \in Allocated : callers[th].id # 0
    /\ \A th \in Allocated, other \in Allocated :
         th # other => callers[th].id # callers[other].id
    /\ \A th \in Done : callers[th].ret = callers[th].id
    /\ \A th \in Threads :
         Cardinality(AddEventsOf(th)) = (IF th \in Done THEN 1 ELSE 0)
    /\ Len(queue) = Cardinality(Done)

\* two calls have returned; the one that took its id second pushed first
C20_Witness ==
  /\ TagsValid
  /\ Done = Threads
  /\ Len(queue) = 2
  /\ callers[queue[1].data1[1].handler_].ret = 2
  /\ callers[queue[2].data1[1].handler_].ret = 1

\* C21: add_timer returns a non-zero value whenever it has injected an
\* add-timer event, and zero only when it added no timer, whatever the id
\* counter holds, also after it wrapped around.
C21_NonZeroWhenAdded ==
  \A th \in Done : (callers[th].ret # 0) <=> TagsValid

\* C22: after a style object on which set_colour was called is destroyed, the
\* renderer's draw colour is the one it had immediately before set_colour.
C22_ColourRestored ==
  (style.phase = "destroyed" /\ style.set) => draw_colour = style.before

\* C23: every timer in timers_ carries as id_ the value add_timer returned for
\* it, so that a stop-timer event with that value removes it and no timer of
\* another add_timer call.
C23_TimerCarriesItsId ==
  \A i \in 1..Len(timers_) : timers_[i].id_ = IssuedId(timers_[i])

\* the timers of timers_ that a pass at the time the clock shows leaves in place
Kept == SelectSeq(timers_, LAMBDA t : ~(clock >= t.when_ /\ t.one_shot_))

\* C24: in one timeout pass every timer whose due-time has come has its
\* callback invoked exactly once, the one-shot ones among them are removed,
\* the others stay in their order, and a timer not yet due is neither invoked
\* nor changed; no callback is invoked in any other step, so none runs before
\* its due-time.
C24_Step ==
  IF TimeoutPass
  THEN /\ \A i \in 1..Len(timers_) :
            LET t == timers_[i]
                h == t.handler_
            IN  IF clock >= t.when_
                THEN /\ fired'[h] = (IF fired[h] < FiredCap THEN fired[h] + 1 ELSE fired[h])
                     /\ t.one_shot_ => After(h) = {}
                ELSE /\ fired'[h] = fired[h]
                     /\ After(h) = {t}
       /\ Len(timers_') = Len(Kept)
       /\ \A j \in 1..Len(Kept) : timers_'[j].handler_ = Kept[j].handler_
  ELSE \A k \in 1..Len(fired) : fired'[k] = fired[k]
C24_DueFireOncePerPass == [][C24_Step]_vars

\* one pass has fired a due one-shot timer and removed it, and left the timer
\* behind it, not yet due, untouched and now first in timers_
C24_Witness ==
  /\ pc = "render"
  /\ wake = "timeout"
  /\ Len(issued) = 2
  /\ issued[1].one_shot
  /\ fired = <<1, 0>>
  /\ Len(timers_) = 1
  /\ timers_[1].handler_ = 2
  /\ timers_[1].when_ > clock

\* C25: at the start of each iteration the wait timeout is the longest wait
\* there is when timers_ is empty, 0 when the earliest due-time of timers_ is
\* not after now, and that due-time minus now otherwise, so that the wait
\* asked for never reaches past the earliest deadline.
C25_TimeoutIsEarliestDeadline ==
  pc = "wait" =>
    /\ timers_ = <<>> => timeout = IntMax
    /\ timers_ # <<>> =>
         LET earliest == SetMin({timers_[i].when_ : i \in 1..Len(timers_)})
         IN  /\ earliest <= loop_now => timeout = 0
             /\ earliest > loop_now => timeout = earliest - loop_now
             /\ \A i \in 1..Len(timers_) :
                  timers_[i].when_ >= loop_now => loop_now + timeout <= timers_[i].when_

\* the loop waits for the second of two timers, which is due before the first
C25_Witness ==
  /\ pc = "wait"
  /\ Len(timers_) = 2
  /\ timers_[2].when_ < timers_[1].when_
  /\ timers_[2].when_ > loop_now
  /\ timeout = timers_[2].when_ - loop_now

\* some timer of timers_ is due at the time the clock shows
SomeDue == \E i \in 1..Len(timers_) : clock >= timers_[i].when_

\* a step in which the wait of an iteration returned
WaitReturns == pc = "wait" /\ pc' = "render"

\* C26: a timer callback is invoked in an iteration exactly when the wait
\* returned with no event and no error and some timer is due; when an event
\* was delivered or the wait returned with an error set, no callback is
\* invoked and no timer changes its due-time, even with timers already due.
C26_Step ==
  /\ (\E k \in 1..Len(fired) : fired'[k] # fired[k]) =>
       (WaitReturns /\ wake' = "timeout" /\ SomeDue)
  /\ (WaitReturns /\ wake' = "timeout") =>
       \A i \in 1..Len(timers_) :
         (clock >= timers_[i].when_ /\ fired[timers_[i].handler_] < FiredCap)
           => fired'[timers_[i].handler_] > fired[timers_[i].handler_]
  /\ (WaitReturns /\ wake' \in {"event", "error"}) =>
       /\ \A k \in 1..Len(fired) : fired'[k] = fired[k]
       /\ \A i \in 1..Len(timers_) : After(timers_[i].handler_) \subseteq {timers_[i]}
C26_FiresOnlyOnGenuineTimeout == [][C26_Step]_vars

\* an event was delivered in an iteration that began with a timer already
\* due: the timer is as it was and its callback has not run
C26_Witness ==
  /\ pc = "render"
  /\ wake = "event"
  /\ Len(timers_) >= 1
  /\ timers_[1].when_ <= loop_now
  /\ fired[timers_[1].handler_] = 0

\* a step of one of add_timer, stop_timer and stop_event_loop, which leave the
\* loop where it is and at most put an event at the end of the queue
CallFromAnyThread ==
  /\ pc' = pc
  /\ clock' = clock
  /\ \/ lastAdd' # lastAdd
     \/ lastStop' # lastStop
     \/ issued' # issued
     \/ Len(queue') = Len(queue) + 1 /\ queue'[Len(queue')].type >= SDL_USEREVENT

\* C27: timers_ changes only in a step of the loop in which its wait returned
\* with an event or a timeout; add_timer, stop_timer and stop_event_loop at
\* most append an event to the queue and leave timers_ alone, a timer becomes a
\* member of timers_ only in the step that takes its add-timer event off the
\* queue, and a timeout pass adds no member and takes no event.
C27_Step ==
  /\ timers_' # timers_ => (WaitReturns /\ wake' \in {"event", "timeout"})
  /\ CallFromAnyThread =>
       /\ timers_' = timers_
       /\ \/ queue' = queue
          \/ /\ Len(queue') = Len(queue) + 1
             /\ \A i \in 1..Len(queue) : queue'[i] = queue[i]
  /\ \A h \in 1..Len(fired) :
       (After(h) # {} /\ ~InSet(h)) =>
         /\ WaitReturns
         /\ wake' = "event"
         /\ queue # <<>>
         /\ Head(queue).type = add_timer_event_type_
         /\ Head(queue).data1[1].handler_ = h
  /\ TimeoutPass => (queue' = queue /\ Len(timers_') <= Len(timers_))
C27_OnlyLoopChangesTimers == [][C27_Step]_vars

\* add_timer has returned while the loop is waiting: its timer is in the queue
\* and not yet in timers_
C27_Witness ==
  /\ pc = "wait"
  /\ Len(issued) = 1
  /\ issued[1].running
  /\ InQueue(1)
  /\ ~InSet(1)
  /\ timers_ = <<>>

\* handler i of handlers_ is the one handle_event calls for e, or one in front
\* of it that has e's type and declines
CalledFor(i, e) ==
  /\ handlers_[i].first = e.type
  /\ \A j \in 1..(i - 1) : handlers_[j].first = e.type => ~handlers_[j].ret

\* C28: the loop takes the events in delivery order and classifies each once:
\* an event with SDL_QUIT or one of the three tags of the event_map is taken
\* by the loop and calls no handler, a handler registered for that tag
\* included; every other event goes through handle_event once.
C28_Step ==
  /\ (WaitReturns /\ wake' = "event") =>
       /\ queue # <<>>
       /\ queue' = Tail(queue)
       /\ LET e == Head(queue)
          IN  IF e.type \in LoopTags
              THEN /\ calls' = calls
                   /\ lastEvent' = lastEvent
                   /\ handlers_' = handlers_
                   /\ (e.type \in {SDL_QUIT, stop_event_type_}) => (stop_' /\ timers_' = timers_)
                   /\ (e.type \notin {SDL_QUIT, stop_event_type_}) => stop_' = stop_
              ELSE /\ lastEvent' = e
                   /\ stop_' = stop_
                   /\ timers_' = timers_
                   /\ \A i \in 1..Len(handlers_) :
                        Cardinality({c \in 1..Len(calls') : calls'[c].idx = i})
                          = (IF CalledFor(i, e) THEN 1 ELSE 0)
  /\ ~(WaitReturns /\ wake' = "event") => (calls' = calls /\ lastEvent' = lastEvent)
C28_LoopTagsIntercepted == [][C28_Step]_vars

\* a handler is registered for the stop tag, the loop has taken a stop event
\* and no handler has been called
C28_Witness ==
  /\ pc = "render"
  /\ wake = "event"
  /\ stop_
  /\ \E i \in 1..Len(handlers_) : handlers_[i].first = stop_event_type_
  /\ calls = <<>>
  /\ lastEvent = NoEvent

\* entries i and j of hs are key-down handlers for the same key, i registered
\* before j
SameKeyPair(hs, i, j) ==
  /\ i < j
  /\ hs[i].kind = "key_down"
  /\ hs[j].kind = "key_down"
  /\ hs[i].keycode_ = hs[j].keycode_

\* C29: with two key-down handlers registered for one key, a key-down event
\* for that key is consumed at the first of them or before it and the second
\* is not called for it; the action of the second never runs and the state of
\* its rate limiter stays as add_key_down_handler left it.
C29_Step ==
  IsFeed =>
    \A i, j \in 1..Len(handlers_) :
      SameKeyPair(handlers_, i, j) =>
        /\ handlers_'[j] = handlers_[j]
        /\ handlers_[j].count = 0
        /\ handlers_[j].rate_limiter_ = Entry(SDL_KEYDOWN, "key_down", 0, FALSE).rate_limiter_
        /\ (lastEvent'.type = SDL_KEYDOWN /\ lastEvent'.sym = handlers_[i].keycode_) =>
             /\ result'
             /\ \A c \in 1..Len(calls') : calls'[c].idx # j
             /\ calls'[Len(calls')].idx <= i
             /\ (\A k \in 1..(i - 1) : ~Consumes(handlers_[k], lastEvent')
                                          \/ handlers_[k].first # SDL_KEYDOWN)
                  => /\ calls'[Len(calls')].idx = i
                     /\ handlers_'[i].rate_limiter_.last_key_timestamp_ = lastEvent'.timestamp
C29_SecondHandlerNeverReached == [][C29_Step]_vars

\* two key-down handlers for one key have seen a press and a suppressed
\* repeat of it: the action of the first ran once, the second is untouched
C29_Witness ==
  /\ fed = 2
  /\ Len(handlers_) = 2
  /\ SameKeyPair(handlers_, 1, 2)
  /\ lastEvent.type = SDL_KEYDOWN
  /\ lastEvent.sym = handlers_[1].keycode_
  /\ lastEvent.repeat = 1
  /\ handlers_[1].count = 1
  /\ handlers_[1].rate_limiter_.key_repeat_count_ = 1
  /\ handlers_[2].count = 0
  /\ calls = <<[idx |-> 1, ret |-> TRUE]>>

\* C30: no event in the queue carries the type tag -1 that the tag fields hold
\* when SDL_RegisterEvents failed: each event that add_timer, stop_timer or
\* stop_event_loop has pushed carries one of the three reserved tags.
C30_NoInvalidTagInjected ==
  \A i \in 1..Len(queue) :
    /\ queue[i].type # InvalidTag
    /\ queue[i].type >= SDL_USEREVENT =>
         (/\ TagsValid
          /\ queue[i].type \in {stop_event_type_, add_timer_event_type_,
                                 stop_timer_event_type_})

\* C31: when run_event_loop has returned, no timer record that add_timer
\* built and pushed is left in the queue: each has been taken by the loop and
\* put in timers_.
C31_NoRecordLeftInQueue ==
  pc = "returned" =>
    \A k \in 1..Len(issued) : ~InQueue(k)

====
